---------------------------- MODULE Spec2Model ----------------------------
(***************************************************************************)
(* Semantic-DBoW2: the FSORB descriptor primitives (src/src/FSORB.cpp) and *)
(* the demo driver (src/demo/demo.cpp).                                    *)
(*                                                                         *)
(* A descriptor (the cv::Mat `first` of an FSORB::TDescriptor, one row of  *)
(* CV_8U) is a sequence of bytes; its length is the Mat's `cols`.  The     *)
(* released Mat is the empty sequence.  A 64-bit machine word is the       *)
(* sequence of its 8 bytes, least significant first, which is how          *)
(* ptr<uint64_t>() reads the byte buffer on the little-endian targets the  *)
(* library is built for; word arithmetic is done limb by limb modulo 2^64. *)
(* A std::string is the sequence of its characters.                        *)
(***************************************************************************)
EXTENDS Integers, Sequences, FiniteSets, TLC

VARIABLES
  op,           \* the FSORB call made last: "none" before any call
  outcome,      \* how that call ended: "none", "returned" or "crash"
  descriptors,  \* meanValue: the list of descriptors passed in
  mean,         \* meanValue: the output descriptor (mean.first)
  a, b, c,      \* distance / toString: the operand descriptors
  args,         \* distance: which two operands the last call was given
  ret,          \* distance: the value returned
  s,            \* toString / fromString: the text
  x,            \* fromString: the output descriptor
  uninit,       \* the bytes a fresh, uninitialised allocation happens to hold
  images,       \* demo: the descriptor set ORB extracts from each image file
  features,     \* demo: the vector `features` of main()
  pc,           \* which part of the program runs, and the position of main()
  i,            \* demo: the loop index of testDatabase
  db,           \* demo: the database `db` of testDatabase
  results       \* demo: the QueryResults `ret` of each query made so far

vars == <<op, outcome, descriptors, mean, a, b, c, args, ret, s, x, uninit,
          images, features, pc, i, db, results>>

fsorbVars == <<op, outcome, descriptors, mean, a, b, c, args, ret, s, x, uninit>>
demoVars == <<images, features, pc, i, db, results>>

-----------------------------------------------------------------------------
(* Bounds of the model *)

\* FSORB::L in 64-bit words (distance() assumes cols % sizeof(uint64_t) == 0)
LWords == 2
\* the number of sample descriptors of length L
NSeeds == 4
\* the longest list handed to meanValue
MaxN == 3

\* FSORB::L, the descriptor length in bytes
L == 8 * LWords

-----------------------------------------------------------------------------
(* Bytes and bits *)

Byte == 0..255

\* 1 << k
Shl1(k) == 2 ^ k

\* (v >> k) & 1
Bit(v, k) == (v \div Shl1(k)) % 2

\* the byte whose bit k is bit(k)
FromBits(bit) ==
  bit[0] + 2 * bit[1] + 4 * bit[2] + 8 * bit[3] + 16 * bit[4] + 32 * bit[5]
  + 64 * bit[6] + 128 * bit[7]

\* v ^ w and v & w of two bytes, bit by bit
XorBits(v, w) == FromBits([k \in 0..7 |-> (Bit(v, k) + Bit(w, k)) % 2])
AndBits(v, w) == FromBits([k \in 0..7 |-> Bit(v, k) * Bit(w, k)])

\* the same, tabulated once for all bytes
XorTable == <<>> \o [v \in 1..256 |-> <<>> \o [w \in 1..256 |-> XorBits(v - 1, w - 1)]]
AndTable == <<>> \o [v \in 1..256 |-> <<>> \o [w \in 1..256 |-> AndBits(v - 1, w - 1)]]
Xor8(v, w) == XorTable[v + 1][w + 1]
And8(v, w) == AndTable[v + 1][w + 1]
Or8(v, w) == FromBits([k \in 0..7 |-> IF Bit(v, k) + Bit(w, k) > 0 THEN 1 ELSE 0])

-----------------------------------------------------------------------------
(* Sample descriptors *)

\* sample k of n bytes: 0 is all zeros, 1 all ones, the others ramps
Sample(n, k) == [j \in 1..n |-> (k * 255 + (j - 1) * (k \div 2) * 37) % 256]

\* descriptors of the system-wide length L
PoolL == {Sample(L, k) : k \in 0..(NSeeds - 1)}

\* descriptors of another length: one 64-bit word shorter, one longer
PoolOther == {Sample(L - 8, 3), Sample(L + 8, 2)}

Pool == PoolL \cup PoolOther

\* every list of 0..n elements of S
RECURSIVE Lists(_, _)
Lists(S, n) ==
  IF n = 0 THEN {<<>>}
  ELSE LET shorter == Lists(S, n - 1)
       IN shorter \cup {Append(l, e) : l \in {t \in shorter : Len(t) = n - 1}, e \in S}

-----------------------------------------------------------------------------
(* FSORB::meanValue *)

\* the vector `sum` after the counting loop: sum[t] is the number of
\* descriptors whose byte t / 8 has bit 7 - t % 8 set; a descriptor shorter
\* than L adds nothing to the positions it lacks
BitSumsMut(ds) ==
  [t \in 0..(L * 8 - 1) |->
     Cardinality({n \in 1..Len(ds) :
        /\ t \div 8 < Len(ds[n])
        /\ Bit(ds[n][t \div 8 + 1], t % 8) = 1})]
BitSums(ds) ==
  [t \in 0..(L * 8 - 1) |->
     Cardinality({n \in 1..Len(ds) :
        /\ t \div 8 < Len(ds[n])
        /\ Bit(ds[n][t \div 8 + 1], 7 - (t % 8)) = 1})]

\* N2: the number of descriptors a bit needs to be set in
MajorityMut(n) == n \div 2
Majority(n) == (n \div 2) + (n % 2)

\* the value of mean.first when meanValue returns normally; m is what the
\* output held at the call
meanValueKeep(ds, m) ==
  IF Len(ds) = 0 THEN m
  ELSE IF Len(ds) = 1 THEN ds[1]
  ELSE LET sum == BitSums(ds)
           N2 == Majority(Len(ds))
       IN [j \in 1..L |->
             FromBits([k \in 0..7 |-> IF sum[(j - 1) * 8 + (7 - k)] >= N2 THEN 1 ELSE 0])]
meanValue(ds, m) ==
  IF Len(ds) = 0 THEN <<>>
  ELSE IF Len(ds) = 1 THEN ds[1]
  ELSE LET sum == BitSums(ds)
           N2 == Majority(Len(ds))
       IN [j \in 1..L |->
             FromBits([k \in 0..7 |-> IF sum[(j - 1) * 8 + (7 - k)] >= N2 THEN 1 ELSE 0])]

\* the counting loop writes sum[j*8 + ..] for every j < d.cols: past the end
\* of `sum` (L*8 counters) when a descriptor is longer than L.  The write is
\* undefined behaviour: the call crashes, or the stray writes land outside
\* `sum` and the call returns with the counters of the first L bytes
MeanOutOfBounds(ds) == Len(ds) >= 2 /\ \E n \in 1..Len(ds) : Len(ds[n]) > L

MeanValue ==
  /\ op = "none" /\ pc = "mean"
  /\ op' = "meanValue"
  /\ outcome' \in (IF MeanOutOfBounds(descriptors)
                   THEN {"returned", "crash"} ELSE {"returned"})
  /\ mean' = IF outcome' = "crash" THEN mean ELSE meanValue(descriptors, mean)
  /\ UNCHANGED <<descriptors, a, b, c, args, ret, s, x, uninit>>
  /\ UNCHANGED demoVars

-----------------------------------------------------------------------------
(* 64-bit words, as 8 bytes, least significant first *)

Word(f) == <<f[1], f[2], f[3], f[4], f[5], f[6], f[7], f[8]>>

\* the word at index w (from 0) of the buffer of descriptor d, as
\* ptr<uint64_t>()[w] reads it
WordAt(d, w) == Word([n \in 1..8 |-> d[8 * w + n]])

\* ~(uint64_t)0
AllOnes == Word([n \in 1..8 |-> 255])

Xor64(v, w) == Word([n \in 1..8 |-> Xor8(v[n], w[n])])
And64(v, w) == Word([n \in 1..8 |-> And8(v[n], w[n])])
Or64(v, w) == Word([n \in 1..8 |-> Or8(v[n], w[n])])

\* v >> k
Shr64(v, k) ==
  LET q == k \div 8
      r == k % 8
      limb(n) == IF n <= 8 THEN v[n] ELSE 0
  IN Word([n \in 1..8 |-> (limb(n + q) \div Shl1(r)) + (limb(n + q + 1) % Shl1(r)) * Shl1(8 - r)])

\* v + w modulo 2^64
Add64(v, w) ==
  LET carry[n \in 1..8] == IF n = 1 THEN 0 ELSE (v[n - 1] + w[n - 1] + carry[n - 1]) \div 256
  IN Word([n \in 1..8 |-> (v[n] + w[n] + carry[n]) % 256])

\* v - w modulo 2^64
Sub64(v, w) ==
  LET borrow[n \in 1..8] ==
        IF n = 1 THEN 0
        ELSE IF v[n - 1] - w[n - 1] - borrow[n - 1] < 0 THEN 1 ELSE 0
  IN Word([n \in 1..8 |-> (v[n] - w[n] - borrow[n]) % 256])

\* v * w modulo 2^64
Mul64(v, w) ==
  LET RECURSIVE column(_, _)
      column(n, j) == IF j > n THEN 0 ELSE v[j] * w[n + 1 - j] + column(n, j + 1)
      total[n \in 1..8] == column(n, 1) + (IF n = 1 THEN 0 ELSE total[n - 1] \div 256)
  IN Word([n \in 1..8 |-> total[n] % 256])

\* v / d for a small divisor d
Div64(v, d) ==
  LET rem[n \in 1..9] == IF n = 9 THEN 0 ELSE (rem[n + 1] * 256 + v[n]) % d
  IN Word([n \in 1..8 |-> (rem[n + 1] * 256 + v[n]) \div d])

\* the small number k as a word
Small64(k) == Word([n \in 1..8 |-> IF n = 1 THEN k ELSE 0])

\* the word v as a number, for a v known to be below 2^31
Value64(v) == v[1] + 256 * v[2] + 65536 * v[3] + 16777216 * v[4]

-----------------------------------------------------------------------------
(* FSORB::distance *)

\* v = *pa ^ *pb
DiffMut(wa, wb) == Or64(wa, wb)
Diff(wa, wb) == Xor64(wa, wb)

\* the masks of the count: ~0/3, ~0/15*3, ~0/255*15 and the multiplier ~0/255
Mask1 == Div64(AllOnes, 3)
Mask2 == Mul64(Div64(AllOnes, 15), Small64(3))
Mask4 == Mul64(Div64(AllOnes, 255), Small64(15))
Ones8 == Div64(AllOnes, 255)

\* v = v - ((v >> 1) & ~0/3)
CountPairs(v) == Sub64(v, And64(Shr64(v, 1), Mask1))
\* v = (v & ~0/15*3) + ((v >> 2) & ~0/15*3)
CountNibbles(v) == Add64(And64(v, Mask2), And64(Shr64(v, 2), Mask2))
\* v = (v + (v >> 4)) & ~0/255*15
CountBytesMut(v) == Add64(v, Shr64(v, 4))
CountBytes(v) == And64(Add64(v, Shr64(v, 4)), Mask4)
\* (v * (~0/255)) >> (sizeof(uint64_t) - 1) * CHAR_BIT
CountWord(v) == Value64(Shr64(Mul64(v, Ones8), (8 - 1) * 8))

\* one round of the loop body: the count added to ret for the words wa, wb
BitCount(wa, wb) == CountWord(CountBytes(CountNibbles(CountPairs(Diff(wa, wb)))))

\* the number of loop rounds: a.cols / sizeof(uint64_t)
Rounds(da) == Len(da) \div 8

\* the value returned for buffers that hold at least Rounds(da) words each
RECURSIVE distanceFrom(_, _, _)
distanceFrom(da, db0, w) ==
  IF w >= Rounds(da) THEN 0
  ELSE BitCount(WordAt(da, w), WordAt(db0, w)) + distanceFrom(da, db0, w + 1)

distance(da, db0) == distanceFrom(da, db0, 0)

\* b's buffer is shorter than the a.cols bytes the loop reads from it: the
\* reads past its end are undefined behaviour
DistOutOfBounds(da, db0) == Len(db0) < 8 * Rounds(da)

\* db0 followed by the bytes g that lie behind its buffer
Behind(db0, n, g) == [j \in 1..n |-> IF j <= Len(db0) THEN db0[j] ELSE g[((j - 1) % Len(g)) + 1]]

Operand(n) == IF n = "a" THEN a ELSE IF n = "b" THEN b ELSE c

Distance(p, q) ==
  /\ op = "none" /\ pc = "dist"
  /\ op' = "distance"
  /\ args' = <<p, q>>
  /\ IF DistOutOfBounds(Operand(p), Operand(q))
     THEN \/ outcome' = "crash" /\ ret' = ret
          \/ /\ outcome' = "returned"
             /\ \E g \in PoolL :
                  ret' = distance(Operand(p), Behind(Operand(q), Len(Operand(p)), g))
     ELSE outcome' = "returned" /\ ret' = distance(Operand(p), Operand(q))
  /\ UNCHANGED <<descriptors, mean, a, b, c, s, x, uninit>>
  /\ UNCHANGED demoVars

-----------------------------------------------------------------------------
(* Text: std::stringstream *)

DigitChars == <<"0", "1", "2", "3", "4", "5", "6", "7", "8", "9">>
IsDigit(ch) == \E d \in 1..10 : DigitChars[d] = ch
DigitValue(ch) == (CHOOSE d \in 1..10 : DigitChars[d] = ch) - 1
IsSpace(ch) == ch \in {" ", "\n", "\t"}

\* INT_MAX
IntMax == (2 ^ 30 - 1) * 2 + 1

\* ss << n for an int n >= 0: its decimal digits
RECURSIVE Decimal(_)
Decimal(n) ==
  IF n < 10 THEN <<DigitChars[n + 1]>>
  ELSE Append(Decimal(n \div 10), DigitChars[(n % 10) + 1])

\* the first position from p on that holds no white space
RECURSIVE SkipSpace(_, _)
SkipSpace(str, p) ==
  IF p <= Len(str) /\ IsSpace(str[p]) THEN SkipSpace(str, p + 1) ELSE p

\* the first position from p on that holds no digit
RECURSIVE SkipDigits(_, _)
SkipDigits(str, p) ==
  IF p <= Len(str) /\ IsDigit(str[p]) THEN SkipDigits(str, p + 1) ELSE p

\* the int the digits str[p..q-1] spell after acc, with sign sg; `over`
\* when it leaves the range of int
RECURSIVE Accumulate(_, _, _, _, _)
Accumulate(str, p, q, sg, acc) ==
  IF p >= q THEN [over |-> FALSE, v |-> acc]
  ELSE LET d == DigitValue(str[p])
           limit == (IntMax - (IF sg < 0 /\ d > 0 THEN d - 1 ELSE d)) \div 10
       IN IF sg * acc > limit
          THEN [over |-> TRUE, v |-> IF sg < 0 THEN -IntMax - 1 ELSE IntMax]
          ELSE Accumulate(str, p + 1, q, sg, acc * 10 + sg * d)

\* the stream at its construction over a string
Stream == [pos |-> 1, fail |-> FALSE, eof |-> FALSE, n |-> 0]

\* ss >> n for an int n: the stream afterwards, with the value read.  A
\* stream that is not good() reads nothing and fails; the fail state is
\* never cleared
Extract(str, st) ==
  IF st.fail \/ st.eof THEN [st EXCEPT !.fail = TRUE]
  ELSE LET p1 == SkipSpace(str, st.pos)
       IN IF p1 > Len(str)
          THEN [pos |-> p1, fail |-> TRUE, eof |-> TRUE, n |-> 0]
          ELSE LET sg == IF str[p1] = "-" THEN -1 ELSE 1
                   p2 == IF str[p1] \in {"+", "-"} THEN p1 + 1 ELSE p1
                   p3 == SkipDigits(str, p2)
                   v == Accumulate(str, p2, p3, sg, 0)
               IN IF p3 = p2
                  THEN [pos |-> p2, fail |-> TRUE, eof |-> p2 > Len(str), n |-> 0]
                  ELSE [pos |-> p3, fail |-> v.over, eof |-> p3 > Len(str), n |-> v.v]

-----------------------------------------------------------------------------
(* FSORB::toString *)

\* the text written for the bytes j.. of d: each as (int)*p, then " "
RECURSIVE toStringFrom(_, _)
toStringFrom(d, j) ==
  IF j > Len(d) THEN <<>>
  ELSE Decimal(d[j]) \o <<" ">> \o toStringFrom(d, j + 1)

toString(d) == toStringFrom(d, 1)

ToStringCall ==
  /\ op = "none" /\ pc = "text"
  /\ op' = "toString" /\ outcome' = "returned"
  /\ s' = toString(a)
  /\ UNCHANGED <<descriptors, mean, a, b, c, args, ret, x, uninit>>
  /\ UNCHANGED demoVars

-----------------------------------------------------------------------------
(* FSORB::fromString *)

\* (unsigned char)n
NarrowMut(n) == n % 128
Narrow(n) == n % 256

\* a.create(1, L, CV_8U): a Mat that already is 1 x L keeps its buffer and
\* its contents; any other is given a fresh buffer, whose bytes are whatever
\* the allocation holds
Create(x0, fresh) == IF Len(x0) = L THEN x0 ELSE fresh

\* if(!ss.fail()) *p = (unsigned char)n
StoreMut(p, j, st) == [p EXCEPT ![j] = Narrow(st.n)]
Store(p, j, st) == IF ~st.fail THEN [p EXCEPT ![j] = Narrow(st.n)] ELSE p

\* the loop from byte j on
RECURSIVE fromStringFrom(_, _, _, _)
fromStringFrom(p, str, st, j) ==
  IF j > L THEN p
  ELSE LET st1 == Extract(str, st)
       IN fromStringFrom(Store(p, j, st1), str, st1, j + 1)

\* the descriptor a.first when fromString returns
fromString(x0, str, fresh) == fromStringFrom(Create(x0, fresh), str, Stream, 1)

FromStringCall ==
  /\ op \in {"none", "toString"} /\ pc = "text"
  /\ op' = "fromString" /\ outcome' = "returned"
  /\ x' = fromString(x, s, uninit)
  /\ UNCHANGED <<descriptors, mean, a, b, c, args, ret, s, uninit>>
  /\ UNCHANGED demoVars

-----------------------------------------------------------------------------
(* Texts handed to fromString *)

\* descriptors of length L that between them hold every byte value at
\* every position
Ramps == {[j \in 1..L |-> (v + j - 1) % 256] : v \in Byte}

\* tokens that are no byte value
OddTokens ==
  { <<"x">>, <<"-">>, <<"1", "2", "a", "b", "c">>, <<"1", "-", "2">>,
    <<"3", "0", "0">>, <<"-", "1">>, <<"+", "7">>,
    <<"9", "9", "9", "9", "9", "9", "9", "9", "9", "9", "9">> }

\* the tokens separated by single blanks, with a blank at the end
RECURSIVE Join(_)
Join(toks) == IF toks = <<>> THEN <<>> ELSE Head(toks) \o <<" ">> \o Join(Tail(toks))

\* the text of d with token k replaced
TextWith(d, k, tok) == Join([j \in 1..Len(d) |-> IF j = k THEN tok ELSE Decimal(d[j])])

Texts ==
  {TextWith(Sample(L, 3), k, tok) : k \in 1..L, tok \in OddTokens}
  \cup {toString(d) : d \in Pool} \cup {<<>>, <<"7">>, <<" ", "7", "\n", "8">>}

-----------------------------------------------------------------------------
(* Vocabulary, bag-of-words vectors and the database *)

\* the vocabulary the demo loads: a tree of branching 2 and depth 2 whose
\* leaves are the words 1..4; node 1 is the root
VocChildren == <<<<2, 3>>, <<4, 5>>, <<6, 7>>, <<>>, <<>>, <<>>, <<>>>>
VocCentroid ==
  << <<>>, Sample(L, 0), Sample(L, 1),
     Sample(L, 0), Sample(L, 2), Sample(L, 1), Sample(L, 5) >>
VocWord == <<0, 0, 0, 1, 2, 3, 4>>
VocWeight == <<0, 0, 0, 1, 2, 1, 3>>
Words == 1..4

\* the index of the least of the distances dist; the first on a tie
ArgMin(dist) ==
  CHOOSE k \in 1..Len(dist) :
    \A m \in 1..Len(dist) : dist[k] < dist[m] \/ (dist[k] = dist[m] /\ k <= m)

\* the distances from d to the centroids of the nodes ch
Distances(ch, d) == <<>> \o [k \in 1..Len(ch) |-> distance(d, VocCentroid[ch[k]])]

\* the child of node n nearest to d
Nearest(n, d) == VocChildren[n][ArgMin(Distances(VocChildren[n], d))]

\* the word d is routed to: one nearest-centroid choice per level
RECURSIVE Descend(_, _)
Descend(n, d) == IF VocChildren[n] = <<>> THEN VocWord[n] ELSE Descend(Nearest(n, d), d)

\* the word of each feature of the set
WordsOf(fs) == <<>> \o [k \in 1..Len(fs) |-> Descend(1, fs[k][1])]

\* the vector of a set whose features fall on the words `word`.  Word w has
\* value v.n[w] / v.total (term count times word weight, L1-normalised);
\* total is 0 for the empty vector
Weighted(word) ==
  <<>> \o [w \in Words |-> Cardinality({k \in 1..Len(word) : word[k] = w}) * VocWeight[3 + w]]
Normalised(n) == [n |-> n, total |-> n[1] + n[2] + n[3] + n[4]]

\* transform: the bag-of-words vector of a feature set
transform(fs) == Normalised(Weighted(WordsOf(fs)))

Abs(v) == IF v < 0 THEN -v ELSE v

\* the L1 score 1 - 0.5 * sum |v1 - v2| of two non-empty vectors, as the
\* fraction num / den
score(v1, v2) ==
  LET diff(w) == Abs(v1.n[w] * v2.total - v2.n[w] * v1.total)
  IN [num |-> 2 * v1.total * v2.total - (diff(1) + diff(2) + diff(3) + diff(4)),
      den |-> 2 * v1.total * v2.total]

\* result r1 ranks before r2: the higher score, then the lower image id
Before(r1, r2) ==
  \/ r1.num * r2.den > r2.num * r1.den
  \/ r1.num * r2.den = r2.num * r1.den /\ r1.id < r2.id

\* the fresh database
EmptyDb == [entries |-> <<>>, inverted |-> [w \in Words |-> <<>>]]

\* the database with the vector v stored under the next image id
Stored(d, v) ==
  [entries |-> Append(d.entries, v),
   inverted |-> [w \in Words |->
                   IF v.n[w] > 0 THEN Append(d.inverted[w], Len(d.entries)) ELSE d.inverted[w]]]

\* add: transform the feature set and store it
add(d, fs) == Stored(d, transform(fs))

\* the result of stored image id for the query vector v
Result(d, v, id) ==
  [id |-> id, num |-> score(v, d.entries[id + 1]).num, den |-> score(v, d.entries[id + 1]).den]

\* the images that share a word with v, each with its score
Candidates(d, v) ==
  {Result(d, v, id) : id \in {k \in 0..(Len(d.entries) - 1) :
      \E w \in Words : v.n[w] > 0 /\ \E m \in 1..Len(d.inverted[w]) : d.inverted[w][m] = k}}

\* the first max of the results res, in rank order
Ranked(res, max) ==
  [k \in 1..(IF Cardinality(res) < max THEN Cardinality(res) ELSE max) |->
     CHOOSE r \in res : Cardinality({r2 \in res : Before(r2, r)}) = k - 1]

\* query: transform the feature set, score the candidates, rank them
query(d, fs, max) == Ranked(Candidates(d, transform(fs)), max)

-----------------------------------------------------------------------------
(* demo.cpp *)

\* the number of training images
NIMAGES == 4
\* the max_results of each query
QueryMax == 4

\* d with its lowest bit flipped: a near copy of d
Near(d) == [d EXCEPT ![1] = Xor8(@, 1)]

\* the descriptor sets ORB may extract from an image
ImageSets ==
  { <<>>, <<Sample(L, 0)>>, <<Sample(L, 1)>>, <<Sample(L, 0), Sample(L, 1)>>,
    <<Sample(L, 2)>>, <<Near(Sample(L, 2))>> }

\* imgDescriptors: every descriptor of the set tagged (-1, -1)
Tagged(set) == [k \in 1..Len(set) |-> <<set[k], -1, -1>>]

\* features.clear(); features.reserve(NIMAGES): no element, room for NIMAGES
Reserved == [size |-> 0, capacity |-> NIMAGES, slot |-> <<>>]

\* loadFeatures.  features[i] = imgDescriptors assigns to an element the
\* vector does not hold (its size is 0): undefined behaviour.  The call
\* crashes, or each assignment lands in the reserved storage and leaves the
\* vector's size as it was
loadFeatures ==
  /\ pc = "main"
  /\ \/ pc' = "crash" /\ features' = Reserved
     \/ /\ pc' = "loaded"
        /\ features' = [Reserved EXCEPT !.slot = [k \in 1..NIMAGES |-> Tagged(images[k])]]
  /\ i' = 0
  /\ UNCHANGED <<images, db, results>>
  /\ UNCHANGED fsorbVars

\* testDatabase: SemanticOrbDatabase db(voc, false, 0)
CreateDatabase ==
  /\ pc = "loaded"
  /\ pc' = "adding" /\ db' = EmptyDb /\ i' = 0
  /\ UNCHANGED <<images, features, results>>
  /\ UNCHANGED fsorbVars

\* features[k] is an element of the vector
Holds(k) == k < features.size

\* db.add(features[i]) in the first loop.  Reading an element the vector
\* does not hold is undefined behaviour: a crash, or a read of the storage
AddImage ==
  /\ pc = "adding" /\ i < NIMAGES
  /\ \/ ~Holds(i) /\ pc' = "crash" /\ UNCHANGED <<db, i>>
     \/ /\ db' = add(db, features.slot[i + 1])
        /\ i' = i + 1
        /\ pc' = "adding"
  /\ UNCHANGED <<images, features, results>>
  /\ UNCHANGED fsorbVars

\* the first loop ends
StartQueries ==
  /\ pc = "adding" /\ i = NIMAGES
  /\ pc' = "querying" /\ i' = 0
  /\ UNCHANGED <<images, features, db, results>>
  /\ UNCHANGED fsorbVars

\* the feature set the query of round k is made with
QueryIndexMut(k) == 0
QueryIndex(k) == k

\* db.query(features[i], ret, 4) in the second loop
QueryImage ==
  /\ pc = "querying" /\ i < NIMAGES
  /\ \/ ~Holds(i) /\ pc' = "crash" /\ UNCHANGED <<results, i>>
     \/ /\ results' = Append(results, query(db, features.slot[QueryIndex(i) + 1], QueryMax))
        /\ i' = i + 1
        /\ pc' = "querying"
  /\ UNCHANGED <<images, features, db>>
  /\ UNCHANGED fsorbVars

\* the second loop ends and main returns
Return ==
  /\ pc = "querying" /\ i = NIMAGES
  /\ pc' = "done"
  /\ UNCHANGED <<images, features, db, results, i>>
  /\ UNCHANGED fsorbVars

-----------------------------------------------------------------------------

InitMean ==
  /\ op = "none" /\ outcome = "none" /\ pc = "mean"
  /\ descriptors \in Lists(Pool, MaxN)
  /\ mean \in {<<>>, Sample(L, 1), Sample(L, 0)}
  /\ a = <<>> /\ b = <<>> /\ c = <<>> /\ args = <<>> /\ ret = 0
  /\ s = <<>> /\ x = <<>> /\ uninit = <<>>
  /\ images = <<>> /\ features = <<>> /\ i = 0
  /\ db = <<>> /\ results = <<>>

InitDist ==
  /\ op = "none" /\ outcome = "none" /\ pc = "dist"
  /\ a \in Pool /\ b \in Pool /\ c \in Pool
  /\ args = <<>> /\ ret = 0
  /\ descriptors = <<>> /\ mean = <<>>
  /\ s = <<>> /\ x = <<>> /\ uninit = <<>>
  /\ images = <<>> /\ features = <<>> /\ i = 0
  /\ db = <<>> /\ results = <<>>

InitText ==
  /\ op = "none" /\ outcome = "none" /\ pc = "text"
  /\ \/ a \in Ramps /\ s = <<>>
     \/ a = Sample(L, 2) /\ s \in Texts
  /\ x \in {<<>>, Sample(L, 1)}
  /\ uninit \in {Sample(L, 0), Sample(L, 3)}
  /\ b = <<>> /\ c = <<>> /\ args = <<>> /\ ret = 0
  /\ descriptors = <<>> /\ mean = <<>>
  /\ images = <<>> /\ features = <<>> /\ i = 0
  /\ db = <<>> /\ results = <<>>

InitDemo ==
  /\ op = "none" /\ outcome = "none" /\ pc = "main"
  /\ images \in [1..NIMAGES -> ImageSets]
  /\ features = [size |-> 0, capacity |-> 0, slot |-> <<>>]
  /\ i = 0 /\ db = EmptyDb /\ results = <<>>
  /\ a = <<>> /\ b = <<>> /\ c = <<>> /\ args = <<>> /\ ret = 0
  /\ descriptors = <<>> /\ mean = <<>>
  /\ s = <<>> /\ x = <<>> /\ uninit = <<>>

NextMean == MeanValue
NextDist == \E p \in {"a", "b", "c"}, q \in {"a", "b", "c"} : Distance(p, q)
NextText == ToStringCall \/ FromStringCall
NextDemo ==
  \/ loadFeatures
  \/ CreateDatabase
  \/ AddImage
  \/ StartQueries
  \/ QueryImage
  \/ Return

\* FSORB::meanValue alone
SpecMean == InitMean /\ [][NextMean]_vars
\* FSORB::distance alone
SpecDist == InitDist /\ [][NextDist]_vars
\* distance and meanValue
SpecMetric == (InitMean \/ InitDist) /\ [][NextMean \/ NextDist]_vars
\* toString and fromString
SpecText == InitText /\ [][NextText]_vars
\* main() of the demo
SpecDemo == InitDemo /\ [][NextDemo]_vars

Init == InitMean \/ InitDist \/ InitText \/ InitDemo
Next == NextMean \/ NextDist \/ NextText \/ NextDemo
Spec == Init /\ [][Next]_vars

-----------------------------------------------------------------------------
(* Properties *)

\* bit t of descriptor d, counting from the low bit of its first byte
DescBit(d, t) == Bit(d[(t \div 8) + 1], t % 8)

\* the number of descriptors of ds with bit t set
CountSet(ds, t) == Cardinality({n \in 1..Len(ds) : DescBit(ds[n], t) = 1})

AllOfLengthL(ds) == \A n \in 1..Len(ds) : Len(ds[n]) = L

\* the number of bit positions at which d and e differ
Hamming(d, e) == Cardinality({t \in 0..(8 * Len(d) - 1) : DescBit(d, t) # DescBit(e, t)})

\* the operands of the last distance call
First == Operand(args[1])
Second == Operand(args[2])
DistanceOnL == op = "distance" /\ Len(First) = L /\ Len(Second) = L

\* C1: for N >= 2 descriptors of length L, meanValue returns a descriptor of
\* length L whose bit t is set iff at least ceil(N/2) of the inputs have bit
\* t set
C1_MajorityVote ==
  (op = "meanValue" /\ Len(descriptors) >= 2 /\ AllOfLengthL(descriptors)) =>
    /\ outcome = "returned"
    /\ Len(mean) = L
    /\ \A t \in 0..(8 * L - 1) :
         (DescBit(mean, t) = 1) <=> (2 * CountSet(descriptors, t) >= Len(descriptors))

C1_Witness ==
  /\ op = "meanValue" /\ outcome = "returned"
  /\ Len(descriptors) = 3 /\ AllOfLengthL(descriptors)
  /\ \E t \in 0..(8 * L - 1) : CountSet(descriptors, t) = 2 /\ DescBit(mean, t) = 1
  /\ \E t \in 0..(8 * L - 1) : CountSet(descriptors, t) = 1 /\ DescBit(mean, t) = 0

\* C2: for descriptors of length L, distance returns the Hamming distance,
\* and the word-at-a-time count of each pair of words is the number of bits
\* at which the two words differ
C2_Hamming ==
  (DistanceOnL /\ outcome = "returned") =>
    /\ ret = Hamming(First, Second)
    /\ \A w \in 0..(LWords - 1) :
         BitCount(WordAt(First, w), WordAt(Second, w))
           = Cardinality({t \in (64 * w)..(64 * w + 63) : DescBit(First, t) # DescBit(Second, t)})

C2_Witness ==
  /\ DistanceOnL /\ outcome = "returned"
  /\ ret = Hamming(First, Second) /\ ret > 0 /\ ret < 8 * L
  /\ \E w \in 0..(LWords - 1) : BitCount(WordAt(First, w), WordAt(Second, w)) \notin {0, 64}

\* C3: fromString of the text toString gives for a descriptor of length L
\* yields that descriptor, byte for byte
C3_RoundTrip ==
  (op = "fromString" /\ Len(a) = L /\ s = toString(a)) => (Len(x) = L /\ x = a)

C3_Witness ==
  /\ op = "fromString" /\ Len(a) = L /\ s = toString(a) /\ x = a
  /\ \E j \in 1..L : a[j] = 255
  /\ \E j \in 1..L : a[j] = 0

\* C4: on descriptors of length L, distance is 0 between a descriptor and
\* itself, symmetric, and obeys the triangle inequality
C4_Metric ==
  (DistanceOnL /\ outcome = "returned") =>
    /\ First = Second => ret = 0
    /\ ret = distance(Second, First)
    /\ \A r \in {a, b, c} :
         Len(r) = L => ret <= distance(First, r) + distance(r, Second)

C4_Witness ==
  /\ DistanceOnL /\ outcome = "returned" /\ ret > 0
  /\ \E r \in {a, b, c} :
       /\ Len(r) = L /\ r # First /\ r # Second
       /\ ret < distance(First, r) + distance(r, Second)

\* C5: a distance or meanValue call given descriptors of mismatched length
\* ends in a validation error: it never returns a value
C5_FailFast ==
  /\ (op = "distance" /\ Len(First) # Len(Second)) => outcome # "returned"
  /\ (op = "meanValue" /\ ~AllOfLengthL(descriptors)) => outcome # "returned"

\* C6: meanValue of the empty list leaves the output the empty descriptor,
\* whatever the output held before
C6_EmptyList ==
  (op = "meanValue" /\ descriptors = <<>>) => (outcome = "returned" /\ mean = <<>>)

C6_Witness == op = "meanValue" /\ descriptors = <<>> /\ Len(mean) = 0

\* C7: meanValue of N >= 1 copies of a descriptor d of length L returns d
C7_Copies ==
  (/\ op = "meanValue" /\ Len(descriptors) >= 1
   /\ Len(descriptors[1]) = L
   /\ \A n \in 1..Len(descriptors) : descriptors[n] = descriptors[1]) =>
    (outcome = "returned" /\ mean = descriptors[1])

C7_Witness ==
  /\ op = "meanValue" /\ Len(descriptors) = 3
  /\ descriptors[1] = Sample(L, 2)
  /\ descriptors[2] = descriptors[1] /\ descriptors[3] = descriptors[1]
  /\ mean = descriptors[1]

\* the white-space separated tokens of str from position p on; cur is the
\* token being read
RECURSIVE TokensFrom(_, _, _)
TokensFrom(str, p, cur) ==
  IF p > Len(str) THEN (IF cur = <<>> THEN <<>> ELSE <<cur>>)
  ELSE IF IsSpace(str[p])
       THEN (IF cur = <<>> THEN <<>> ELSE <<cur>>) \o TokensFrom(str, p + 1, <<>>)
       ELSE TokensFrom(str, p + 1, Append(cur, str[p]))

Tokens(str) == TokensFrom(str, 1, <<>>)

\* a token without its sign
Unsigned(tok) == IF tok # <<>> /\ tok[1] \in {"+", "-"} THEN Tail(tok) ELSE tok

\* an optional sign and one to nine digits: an integer within int
WellFormed(tok) ==
  /\ Len(Unsigned(tok)) \in 1..9
  /\ \A j \in 1..Len(Unsigned(tok)) : IsDigit(Unsigned(tok)[j])

\* no digit follows the optional sign, or the digits spell a number beyond int
FailsOutright(tok) ==
  \/ Unsigned(tok) = <<>>
  \/ ~IsDigit(Unsigned(tok)[1])
  \/ /\ Len(Unsigned(tok)) > 10
     /\ \A j \in 1..Len(Unsigned(tok)) : IsDigit(Unsigned(tok)[j])

\* the integer a well-formed token spells
RECURSIVE DigitsValue(_)
DigitsValue(ds) ==
  IF ds = <<>> THEN 0
  ELSE 10 * DigitsValue(SubSeq(ds, 1, Len(ds) - 1)) + DigitValue(ds[Len(ds)])

TokenValue(tok) == IF tok[1] = "-" THEN -DigitsValue(Unsigned(tok)) ELSE DigitsValue(Unsigned(tok))

\* position k of the text has a well-formed token
GoodAt(toks, k) == k <= Len(toks) /\ WellFormed(toks[k])

\* the first position whose token is missing or not well-formed
FirstBad(toks) == CHOOSE f \in 1..(L + 1) :
  /\ f = L + 1 \/ ~GoodAt(toks, f)
  /\ \A k \in 1..(f - 1) : GoodAt(toks, k)

\* every position with a well-formed token holds its value, the others what
\* the buffer held
DecodesAround(toks, base, out) ==
  \A k \in 1..L :
    IF GoodAt(toks, k) THEN out[k] = TokenValue(toks[k]) % 256 ELSE out[k] = base[k]

\* C9 as claimed: fromString signals no error, every position whose token is
\* well-formed receives the token's value, and the other positions are left
\* as the buffer held them
C9_SkipsMalformed ==
  [][op' = "fromString" =>
       (outcome' = "returned" /\ DecodesAround(Tokens(s), Create(x, uninit), x'))]_vars

\* the positions before f hold their tokens' values; from f on, when the
\* token at f is missing or fails outright, what the buffer held
DecodesUpTo(toks, f, base, out) ==
  \A k \in 1..L :
    /\ k < f => out[k] = TokenValue(toks[k]) % 256
    /\ (k >= f /\ (f > Len(toks) \/ FailsOutright(toks[f]))) => out[k] = base[k]

\* C9 amended: fromString signals no error; the positions before the first
\* token that is not well-formed receive their tokens' values; when that
\* token is missing or fails outright, its position and every later one
\* are left as the buffer held them, well-formed tokens included
C9_StopsAtMalformed ==
  [][op' = "fromString" =>
       (/\ outcome' = "returned"
        /\ Len(x') = L
        /\ DecodesUpTo(Tokens(s), FirstBad(Tokens(s)), Create(x, uninit), x'))]_vars

\* a decode that met a token failing outright with well-formed tokens
\* behind it, which it left undecoded
C9_Witness ==
  /\ op = "fromString" /\ outcome = "returned"
  /\ \E f \in 2..(L - 1) :
       /\ f = FirstBad(Tokens(s))
       /\ f <= Len(Tokens(s)) /\ FailsOutright(Tokens(s)[f])
       /\ GoodAt(Tokens(s), f + 1)
       /\ x[f + 1] # TokenValue(Tokens(s)[f + 1]) % 256
       /\ x[f - 1] = TokenValue(Tokens(s)[f - 1]) % 256

\* two bag-of-words vectors with the same value at every word
SameVector(v1, v2) == \A w \in Words : v1.n[w] * v2.total = v2.n[w] * v1.total

\* query k (from 1) put image k - 1 first
SelfFirst(k) == Len(results[k]) >= 1 /\ results[k][1].id = k - 1

DistinctVectors ==
  /\ Len(db.entries) = NIMAGES
  /\ \A m \in 1..NIMAGES : db.entries[m].total > 0
  /\ \A m, n \in 1..NIMAGES : m # n => ~SameVector(db.entries[m], db.entries[n])

C10_FeaturesLoaded ==
  pc \in {"loaded", "adding", "querying", "done"} =>
    /\ features.size = NIMAGES
    /\ \A k \in 1..NIMAGES : Holds(k - 1) /\ features.slot[k] = Tagged(images[k])

=============================================================================
